---- MODULE Spec2Model ----
(***************************************************************************)
(* log4rs_test_utils: the log-capture subsystem (log_testing.rs), the      *)
(* test-debug-logging subsystem (test_logging.rs) and the string buffer    *)
(* they share (string_buffer.rs), as one state machine.                    *)
(*                                                                         *)
(* Each thread of the test process runs one test.  A test may call one of  *)
(* the four public entry points, logs records through the `log` macros     *)
(* before and after that call, and ends by returning or by panicking.      *)
(* The process-wide state is the `log` crate's global logger, the          *)
(* lazy_static HANDLE, the TEST_MUTEX, the INIT gate, the buffers of the   *)
(* MockAppenders and standard output.                                      *)
(*                                                                         *)
(* Environment assumption: a test reads its LogsHandle and releases that   *)
(* lock before it fails, so the lock of a log buffer is never poisoned.    *)
(* Spec is the process whose appenders all carry a PatternEncoder, which   *)
(* does not fail on a StringBuffer; SpecEnc adds the tests that hand an    *)
(* appender an encoder of their own that fails.                            *)
(***************************************************************************)
EXTENDS Naturals, Integers, Sequences, FiniteSets, TLC

\* ------------------------------------------------------------------ bounds
NumThreads == 2
MaxLogs == 2
\* The longest byte slice handed to StringBuffer::write, and the most chars a
\* StringBuffer holds before the writes.
MaxBytes == 3
MaxChars == 2

Threads == 1..NumThreads

\* ------------------------------------------------- log::Level / LevelFilter
\* The `log` crate's numeric order: a record passes a filter iff level <= filter.
Off == 0
Error == 1
Warn == 2
Info == 3
Trace == 5

LevelName(l) ==
  CASE l = Error -> "ERROR"
    [] l = Warn -> "WARN"
    [] l = Info -> "INFO"
    [] OTHER -> "TRACE"

\* The records the tests log (log_testing.rs tests and the module example):
\* a target is the sequence of its "::"-separated segments.
Records ==
  { [level |-> Info, target |-> <<"foo">>, msg |-> "Hello, world!", line |-> "140"],
    [level |-> Warn, target |-> <<"foo", "sub">>, msg |-> "this will appear", line |-> "160"],
    [level |-> Error, target |-> <<"baz">>, msg |-> "Oh, no!", line |-> "141"] }

\* The warning init_logging_once logs when the backend was already configured.
WarnRecord ==
  [level |-> Warn, target |-> <<"log4rs_test_utils", "test_logging">>,
   msg |-> "init_logging_once tried to set the logger, but it had already been set by someone else!",
   line |-> "121"]

\* Option<T> as a sequence of length <= 1.
NoArg == <<>>
Some(x) == <<x>>
unwrap_or(opt, default) == IF opt = <<>> THEN default ELSE opt[1]

\* ------------------------------------------------------------ configuration
\* A log4rs Config built by this crate has at most one appender.
\*   appender : "none" | "mock" | "console"
\*   logs     : the LogsHandle of a MockAppender (the thread that created it), else 0
\*   pattern  : the pattern of the appender's PatternEncoder
\*   root     : the root logger's level; rootTo: whether root is attached to the appender
\*   loggers  : the names of the named loggers (each at `level`, attached to the appender)
MockPattern == "{l} {t} {m}"
ConsolePattern == "{l} {M}::{L} {m}{n}"
MessagePattern == "{m}"
\* An encoder of the test's own (any Box<dyn Encode>) that writes the level
\* and then returns an error.
FailingEncoder == "<failing encoder>"

\* HANDLE's initial configuration: no appender, root Off.
OffConfig ==
  [appender |-> "none", logs |-> 0, pattern |-> "", root |-> Off, rootTo |-> FALSE,
   loggers |-> {}, level |-> Off]

\* Mutant: a build that accepts repeated logger names.
HasDuplicate_never(targets) == FALSE

\* Whether a sequence of target names repeats a name (log4rs Config::build
\* rejects a second logger of the same name).
HasDuplicate(targets) ==
  \E i, j \in 1..Len(targets) : i < j /\ targets[i] = targets[j]

\* Mutant: every MockAppender writes to one shared buffer instead of a fresh one.
MockConfig_shared(logs, level, encoder) ==
  [appender |-> "mock", logs |-> 1, pattern |-> unwrap_or(encoder, MockPattern),
   root |-> unwrap_or(level, Trace), rootTo |-> TRUE, loggers |-> {}, level |-> Off]

\* logging_test_setup_mock's config: one MockAppender writing to `logs`, root at `level`.
MockConfig(logs, level, encoder) ==
  [appender |-> "mock", logs |-> logs, pattern |-> unwrap_or(encoder, MockPattern),
   root |-> unwrap_or(level, Trace), rootTo |-> TRUE, loggers |-> {}, level |-> Off]

\* Mutant: a make_config that leaves the root logger enabled next to the named loggers.
make_config_root_on(targets, level, pattern) ==
  [appender |-> "console", logs |-> 0, pattern |-> unwrap_or(pattern, ConsolePattern),
   root |-> unwrap_or(level, Trace), rootTo |-> TRUE,
   loggers |-> {targets[i] : i \in 1..Len(targets)},
   level |-> unwrap_or(level, Trace)]

\* TestConsoleAppender::make_config, for duplicate-free targets.
make_config(targets, level, pattern) ==
  IF Len(targets) = 0
  THEN [appender |-> "console", logs |-> 0, pattern |-> unwrap_or(pattern, ConsolePattern),
        root |-> unwrap_or(level, Trace), rootTo |-> TRUE, loggers |-> {}, level |-> Off]
  ELSE [appender |-> "console", logs |-> 0, pattern |-> unwrap_or(pattern, ConsolePattern),
        root |-> Off, rootTo |-> FALSE,
        loggers |-> {targets[i] : i \in 1..Len(targets)},
        level |-> unwrap_or(level, Trace)]

\* ------------------------------------------------------ the logging backend
IsPrefix(s, t) == Len(s) <= Len(t) /\ SubSeq(t, 1, Len(s)) = s

\* log4rs picks the most specific named logger covering the target, else root.
\* All named loggers of one config share level and appender, so it is enough to
\* know whether one covers the target.
Covered(config, target) == \E n \in config.loggers : IsPrefix(n, target)

\* Mutant: a filter that also drops the records exactly at its level.
enabled_strict(filter, level) == level < filter

\* log::LevelFilter comparison.
enabled(filter, level) == level <= filter

\* Whether `config` hands the record to its appender.
Routes(config, rec) ==
  IF Covered(config, rec.target)
  THEN enabled(config.level, rec.level) /\ config.appender # "none"
  ELSE enabled(config.root, rec.level) /\ config.rootTo /\ config.appender # "none"

\* A target as the pattern prints it: its segments joined by "::".
RECURSIVE Path(_)
Path(target) ==
  IF Len(target) <= 1 THEN target
  ELSE <<Head(target), "::">> \o Path(Tail(target))

\* PatternEncoder::encode into a StringBuffer: the formatted line, as the
\* sequence of the pieces the pattern's placeholders and literals write.
encode(pattern, rec) ==
  CASE pattern = MockPattern -> <<LevelName(rec.level), " ">> \o Path(rec.target) \o <<" ", rec.msg>>
    [] pattern = MessagePattern -> <<rec.msg>>
    [] pattern = FailingEncoder -> <<LevelName(rec.level), " ">>
    [] OTHER -> <<LevelName(rec.level), " ">> \o Path(rec.target)
                  \o <<"::", rec.line, " ", rec.msg, "\n">>

\* Whether Encode::encode returns Ok for the encoder.
encode_ok(pattern) == pattern # FailingEncoder

\* Mutant: an init_config that replaces a logger that is already set.
init_config_overwrite(lg, config) ==
  [ok |-> TRUE, logger |-> [set |-> TRUE, config |-> config]]

\* log4rs::init_config: log::set_logger succeeds only if no logger is set yet.
init_config(lg, config) ==
  IF lg.set
  THEN [ok |-> FALSE, logger |-> lg]
  ELSE [ok |-> TRUE, logger |-> [set |-> TRUE, config |-> config]]

\* Mutant: a set_config that leaves the earlier configuration in place.
set_config_stale(lg, config) == lg

\* Handle::set_config: the active configuration is replaced whole.
set_config(lg, config) == [set |-> lg.set, config |-> config]

\* ------------------------------------------------------- std::sync::Mutex
\* Mutant: a lock that does not exclude a second holder.
CanLock_any(m) == TRUE

\* Mutex::lock blocks while another thread holds the mutex.
CanLock(m) == m.holder = 0

\* The LockResult of a lock() that went through: Err(poison) carries the guard too.
LockResult(m) == IF m.poisoned THEN "Err" ELSE "Ok"

\* Mutant: `TEST_MUTEX.lock().unwrap()`, which panics on a poisoned mutex.
GuardOf_unwrap(result) == result = "Ok"

\* logging_test_setup's match on the LockResult: both arms yield the guard.
GuardOf(result) == result \in {"Ok", "Err"}

\* Mutant: a drop that leaves the mutex locked.
unlock_never(m, panicking) == [holder |-> m.holder, poisoned |-> m.poisoned \/ panicking]

\* Dropping the guard; a guard dropped while its thread panics poisons the mutex.
unlock(m, panicking) == [holder |-> 0, poisoned |-> m.poisoned \/ panicking]

\* ---------------------------------------------------------- std::sync::Once
\* Mutant: an atomic-flag gate, whose losers return while the winner still runs.
call_once_racy(state) ==
  CASE state = "incomplete" -> "run"
    [] state = "poisoned" -> "panic"
    [] OTHER -> "skip"

\* What call_once does to a caller that finds the gate in `state`.
call_once(state) ==
  CASE state = "incomplete" -> "run"
    [] state = "running" -> "wait"
    [] state = "poisoned" -> "panic"
    [] OTHER -> "skip"

\* Mutant: a gate that never reports completion.
is_completed_never(state) == FALSE

\* Once::is_completed.
is_completed(state) == state = "complete"

\* ------------------------------------------------------------ this crate
\* Mutant: `log4rs::init_config(config).unwrap()`.
on_init_result_unwrap(ok) == IF ok THEN "done" ELSE "panic"

\* init_logging_once's closure on the Result of init_config: an Err is only
\* reported with warn!.
on_init_result(ok) == IF ok THEN "done" ELSE "warn"

\* Mutant: `let _ = self.encoder.encode(..)`, which pushes whatever was written.
on_encode_result_ignore(ok) == "push"

\* MockAppender::append's `self.encoder.encode(..).unwrap()`.
on_encode_result(ok) == IF ok THEN "push" ELSE "panic"

\* TestConsoleAppender::append's `self.encoder.encode(..)?`.
try_encode(ok) == IF ok THEN "print" ELSE "return Err"

\* Mutant: the line is inserted at the front of the buffer.
push_front(buffer, line) == <<line>> \o buffer

\* MockAppender::append's `logs.push(line)`.
push(buffer, line) == Append(buffer, line)

\* ------------------------------------------------------------ StringBuffer
\* A String is the sequence of its chars (Unicode scalar values); a byte is a
\* number in 0..255.
\* core::str's UTF8_CHAR_WIDTH: the length a lead byte announces, 0 for a byte
\* that cannot lead.
utf8_char_width(b) ==
  CASE b \in 0..127 -> 1
    [] b \in 194..223 -> 2
    [] b \in 224..239 -> 3
    [] b \in 240..244 -> 4
    [] OTHER -> 0

\* Mutant: a validation without the surrogate and overlong rows.
WellFormedUnit_loose(u) ==
  /\ Len(u) = utf8_char_width(u[1])
  /\ \A i \in 2..Len(u) : u[i] \in 128..191

\* core::str's validation of one code point of utf8_char_width bytes: the
\* second byte's range depends on the lead byte, the others are continuations.
WellFormedUnit(u) ==
  CASE Len(u) = 1 -> u[1] \in 0..127
    [] Len(u) = 2 -> u[1] \in 194..223 /\ u[2] \in 128..191
    [] Len(u) = 3 -> /\ u[3] \in 128..191
                     /\ \/ u[1] = 224 /\ u[2] \in 160..191
                        \/ u[1] \in 225..236 /\ u[2] \in 128..191
                        \/ u[1] = 237 /\ u[2] \in 128..159
                        \/ u[1] \in 238..239 /\ u[2] \in 128..191
    [] Len(u) = 4 -> /\ u[3] \in 128..191 /\ u[4] \in 128..191
                     /\ \/ u[1] = 240 /\ u[2] \in 144..191
                        \/ u[1] \in 241..243 /\ u[2] \in 128..191
                        \/ u[1] = 244 /\ u[2] \in 128..143
    [] OTHER -> FALSE

\* The number the payload bits of a 1..4 byte sequence spell.
Value(u) ==
  CASE Len(u) = 1 -> u[1]
    [] Len(u) = 2 -> (u[1] - 192) * 64 + (u[2] - 128)
    [] Len(u) = 3 -> (u[1] - 224) * 4096 + (u[2] - 128) * 64 + (u[3] - 128)
    [] OTHER -> (u[1] - 240) * 262144 + (u[2] - 128) * 4096 + (u[3] - 128) * 64
                  + (u[4] - 128)

\* String::from_utf8: Ok with the String the bytes spell, or Err(FromUtf8Error)
\* at the first byte sequence that is not a well-formed code point.
RECURSIVE from_utf8(_)
from_utf8(buf) ==
  IF buf = <<>> THEN [ok |-> TRUE, string |-> <<>>]
  ELSE LET w == utf8_char_width(buf[1])
       IN IF w = 0 \/ Len(buf) < w \/ ~WellFormedUnit(SubSeq(buf, 1, w))
          THEN [ok |-> FALSE, string |-> <<>>]
          ELSE LET rest == from_utf8(SubSeq(buf, w + 1, Len(buf)))
               IN IF rest.ok
                  THEN [ok |-> TRUE, string |-> <<Value(SubSeq(buf, 1, w))>> \o rest.string]
                  ELSE rest

\* char::encode_utf8: the bytes of one char.
encode_utf8(c) ==
  CASE c < 128 -> <<c>>
    [] c < 2048 -> <<192 + (c \div 64), 128 + (c % 64)>>
    [] c < 65536 -> <<224 + (c \div 4096), 128 + ((c \div 64) % 64), 128 + (c % 64)>>
    [] OTHER -> <<240 + (c \div 262144), 128 + ((c \div 4096) % 64),
                  128 + ((c \div 64) % 64), 128 + (c % 64)>>

\* String::as_bytes: the bytes of the chars, in order.
RECURSIVE as_bytes(_)
as_bytes(string) ==
  IF string = <<>> THEN <<>> ELSE encode_utf8(Head(string)) \o as_bytes(Tail(string))

\* String::push_str.
push_str(string, other) == string \o other

\* StringBuffer::write(buf): the new content and the io::Result.
write(string, buf) ==
  LET buf_encoded == from_utf8(buf)
  IN IF buf_encoded.ok
     THEN [string |-> push_str(string, buf_encoded.string), ok |-> TRUE, n |-> Len(buf),
           err |-> ""]
     ELSE [string |-> string, ok |-> FALSE, n |-> 0, err |-> "InvalidData"]

\* StringBuffer::flush.
flush(string) == [string |-> string, ok |-> TRUE, n |-> 0, err |-> ""]

\* ------------------------------------------------------------- test inputs
\* The bytes the written slices are made of: 'A', a continuation byte, a second
\* continuation byte (also outside 0xED's range), a 2-byte lead, a 3-byte lead,
\* and the lead 0xED whose second byte must not reach the surrogates.
Bytes == {65, 128, 169, 195, 226, 237}
Slices == UNION { [1..n -> Bytes] : n \in 0..MaxBytes }
\* The chars a StringBuffer holds before the writes: 'A', U+00E9, U+2029.
Chars == {65, 233, 8233}
Strings == UNION { [1..n -> Chars] : n \in 0..MaxChars }

\* logging_test_setup_mock's (level, encoder), as simple_mock_example and
\* custom_mock_example call it.
MockArgs == { <<NoArg, NoArg>>, <<Some(Warn), Some(MessagePattern)>> }
TargetLists == { <<>>, << <<"foo">>, <<"bar">> >>, << <<"foo">>, <<"foo">> >> }
\* init_logging_once_for's (targets, level): the defaults, the module example's
\* two targets with a level of their own, and a repeated target.
ForArgs ==
  { << <<>>, NoArg >>,
    << << <<"foo">>, <<"bar">> >>, Some(Warn) >>,
    << << <<"foo">>, <<"foo">> >>, NoArg >> }
\* Configs handed to logging_test_setup and init_logging_once directly.
Configs == { make_config(ts, NoArg, NoArg) : ts \in {ts \in TargetLists : ~HasDuplicate(ts)} }

\* -------------------------------------------------------------------- state
VARIABLES
  pc,          \* where each thread is
  kind,        \* the entry point the thread's test called ("" before the call)
  cfg,         \* the thread's `config` argument / local
  guard,       \* the thread's LockResult of TEST_MUTEX.lock(): "", "Ok" or "Err"
  pending,     \* the record a thread's log call has handed to an appender
  ret,         \* where the thread continues after that append
  nlogs,       \* how many records the tests have logged so far
  fail,        \* why the thread panicked ("" if it did not)
  TEST_MUTEX,  \* [holder: thread or 0, poisoned]
  HANDLE,      \* the lazy_static: "uninit", "ready" or "poisoned"
  INIT,        \* the Once: "incomplete", "running" or "complete"
  logger,      \* the global logger: [set, config]
  logs,        \* the buffer behind each LogsHandle (named by its creating thread)
  stdout,      \* what print! has written
  targs,       \* the `targets` argument of the thread's init_logging_once_for call
  lvl,         \* the `level` argument of that call
  reached,     \* history: whether the thread entered init_logging_once
  sent,        \* history: the records each test logged after its setup call returned
  origin,      \* history: for each buffer line, who logged it and whether under its guard,
               \* the record, and whether the buffer's test had ended when it was logged
  calls,       \* history: per buffer, the records its MockAppender's append was called with
  issuers,     \* history: per buffer, the thread of each of those calls
  overlapped,  \* history: per buffer, whether two append calls were ever in progress at once
  configured,  \* history: who configured the backend with a successful init_config
  errs,        \* the errors appenders returned to the logger, with the calling thread
  sb,          \* a StringBuffer's String
  input,       \* the bytes a writer hands to that StringBuffer, slice by slice
  sbpos,       \* how many of them it has written
  sbres        \* the last call on the StringBuffer and its io::Result

vars == <<pc, kind, cfg, guard, pending, ret, nlogs, fail, TEST_MUTEX, HANDLE, INIT,
          logger, logs, stdout, targs, lvl, reached, sent, origin, calls, issuers, overlapped,
          configured, errs, sb, input, sbpos, sbres>>

sbvars == <<sb, input, sbpos, sbres>>

\* No call has been made on the StringBuffer.
NoCall == [op |-> "", from |-> 0, to |-> 0, ok |-> TRUE, n |-> 0, err |-> ""]

\* The statics before their first use.
InitProcess ==
  /\ pc = [t \in Threads |-> "start"]
  /\ kind = [t \in Threads |-> ""]
  /\ cfg = [t \in Threads |-> OffConfig]
  /\ guard = [t \in Threads |-> ""]
  /\ pending = [t \in Threads |-> <<>>]
  /\ ret = [t \in Threads |-> ""]
  /\ nlogs = 0
  /\ fail = [t \in Threads |-> ""]
  /\ TEST_MUTEX = [holder |-> 0, poisoned |-> FALSE]
  /\ HANDLE = "uninit"
  /\ INIT = "incomplete"
  /\ logger = [set |-> FALSE, config |-> OffConfig]
  /\ logs = [t \in Threads |-> <<>>]
  /\ stdout = <<>>
  /\ targs = [t \in Threads |-> <<>>]
  /\ lvl = [t \in Threads |-> NoArg]
  /\ reached = [t \in Threads |-> FALSE]
  /\ sent = [t \in Threads |-> <<>>]
  /\ origin = [t \in Threads |-> <<>>]
  /\ calls = [t \in Threads |-> <<>>]
  /\ issuers = [t \in Threads |-> <<>>]
  /\ overlapped = [t \in Threads |-> FALSE]
  /\ configured = <<>>
  /\ errs = <<>>

Init ==
  /\ InitProcess
  /\ sb = <<>> /\ input = <<>> /\ sbpos = 0 /\ sbres = NoCall

\* ------------------------------------------------------------------ logging
\* Logger::log for a record logged by thread t, which then continues at `next`:
\* the active configuration is loaded and the record is filtered; a record that
\* passes is handed to the configuration's appender.
Dispatch(t, rec, next) ==
  IF logger.set /\ Routes(logger.config, rec)
  THEN /\ pending' = [pending EXCEPT ![t] =
                        <<[config |-> logger.config, rec |-> rec, held |-> pc[t] = "test",
                           after |-> /\ logger.config.appender = "mock"
                                     /\ pc[logger.config.logs] = "end"]>>]
       /\ ret' = [ret EXCEPT ![t] = next]
       /\ pc' = [pc EXCEPT ![t] = "append"]
       /\ IF logger.config.appender = "mock"
          THEN LET b == logger.config.logs
               IN /\ calls' = [calls EXCEPT ![b] = Append(@, rec)]
                  /\ issuers' = [issuers EXCEPT ![b] = Append(@, t)]
                  /\ overlapped' = [overlapped EXCEPT ![b] =
                        @ \/ \E u \in Threads : /\ pending[u] # <<>>
                                                 /\ pending[u][1].config.appender = "mock"
                                                 /\ pending[u][1].config.logs = b]
          ELSE UNCHANGED <<calls, issuers, overlapped>>
  ELSE /\ pc' = [pc EXCEPT ![t] = next]
       /\ UNCHANGED <<pending, ret, calls, issuers, overlapped>>

\* A test logs a record (info!, warn!, error!), before or after its setup call.
Log(t, rec) ==
  /\ pc[t] \in {"start", "test", "body"}
  /\ nlogs < MaxLogs
  /\ nlogs' = nlogs + 1
  /\ sent' = [sent EXCEPT ![t] = IF pc[t] \in {"test", "body"} THEN Append(@, rec) ELSE @]
  /\ Dispatch(t, rec, pc[t])
  /\ UNCHANGED <<errs, sbvars, lvl, kind, cfg, guard, fail, TEST_MUTEX, HANDLE, INIT,
                 logger, logs, stdout, targs, reached, origin, configured>>

\* Mutant: a push without the buffer lock, which loses the line when another
\* append to the same buffer is in progress.
MockAppender_append_unlocked(t) ==
  /\ pc[t] = "append"
  /\ pending[t][1].config.appender = "mock"
  /\ LET p == pending[t][1]
         b == p.config.logs
         racing == \E u \in Threads \ {t} : /\ pending[u] # <<>>
                                             /\ pending[u][1].config.appender = "mock"
                                             /\ pending[u][1].config.logs = b
     IN /\ logs' = [logs EXCEPT ![b] =
                      IF racing THEN @ ELSE push(@, encode(p.config.pattern, p.rec))]
        /\ origin' = [origin EXCEPT ![b] =
                        IF racing THEN @
                        ELSE Append(@, [by |-> t, held |-> p.held, rec |-> p.rec,
                                        after |-> p.after])]
  /\ pending' = [pending EXCEPT ![t] = <<>>]
  /\ pc' = [pc EXCEPT ![t] = ret[t]]
  /\ UNCHANGED <<errs, sbvars, lvl, kind, cfg, guard, ret, nlogs, fail, TEST_MUTEX, HANDLE,
                 INIT, logger, stdout, targs, reached, sent, calls, issuers, overlapped,
                 configured>>

\* MockAppender::append: encode the record, lock the buffer, push the line.
MockAppender_append(t) ==
  /\ pc[t] = "append"
  /\ pending[t][1].config.appender = "mock"
  /\ LET p == pending[t][1]
         b == p.config.logs
     IN IF on_encode_result(encode_ok(p.config.pattern)) = "push"
        THEN /\ logs' = [logs EXCEPT ![b] = push(@, encode(p.config.pattern, p.rec))]
             /\ origin' = [origin EXCEPT ![b] =
                             Append(@, [by |-> t, held |-> p.held, rec |-> p.rec,
                                        after |-> p.after])]
             /\ pc' = [pc EXCEPT ![t] = ret[t]]
             /\ UNCHANGED <<fail, TEST_MUTEX, INIT>>
        ELSE \* the unwrap panics: the thread unwinds out of its log call, dropping
             \* a guard it holds and poisoning the gate whose closure it is running
             /\ fail' = [fail EXCEPT ![t] = "EncodeError"]
             /\ pc' = [pc EXCEPT ![t] = "end"]
             /\ TEST_MUTEX' = IF ret[t] = "test" THEN unlock(TEST_MUTEX, TRUE) ELSE TEST_MUTEX
             /\ INIT' = IF ret[t] = "closure_end" THEN "poisoned" ELSE INIT
             /\ UNCHANGED <<logs, origin>>
  /\ pending' = [pending EXCEPT ![t] = <<>>]
  /\ UNCHANGED <<errs, sbvars, lvl, kind, cfg, guard, ret, nlogs, HANDLE, logger, stdout,
                 targs, reached, sent, calls, issuers, overlapped, configured>>

\* TestConsoleAppender::append: encode the record, print the line, flush.
TestConsoleAppender_append(t) ==
  /\ pc[t] = "append"
  /\ pending[t][1].config.appender = "console"
  /\ IF try_encode(encode_ok(pending[t][1].config.pattern)) = "print"
     THEN /\ stdout' = Append(stdout, encode(pending[t][1].config.pattern, pending[t][1].rec))
          /\ UNCHANGED errs
     ELSE /\ errs' = Append(errs, [by |-> t, err |-> "EncodeError"])
          /\ UNCHANGED stdout
  /\ pending' = [pending EXCEPT ![t] = <<>>]
  /\ pc' = [pc EXCEPT ![t] = ret[t]]
  /\ UNCHANGED <<sbvars, lvl, kind, cfg, guard, ret, nlogs, fail, TEST_MUTEX, HANDLE, INIT,
                 logger, logs, targs, reached, sent, origin, calls, issuers, overlapped,
                 configured>>

\* ------------------------------------------------------ log-capture subsystem
\* logging_test_setup_mock up to its call of logging_test_setup: a fresh
\* MockAppender and a config whose root logger writes to it.
Call_logging_test_setup_mock(t, level, encoder) ==
  /\ pc[t] = "start"
  /\ kind' = [kind EXCEPT ![t] = "logging_test_setup_mock"]
  /\ cfg' = [cfg EXCEPT ![t] = MockConfig(t, level, encoder)]
  /\ pc' = [pc EXCEPT ![t] = "lock"]
  /\ UNCHANGED <<errs, sbvars, lvl, guard, pending, ret, nlogs, fail, TEST_MUTEX, HANDLE,
                 INIT, logger, logs, stdout, targs, reached, sent, origin, calls, issuers,
                 overlapped, configured>>

\* A test calls logging_test_setup with a config of its own.
Call_logging_test_setup(t, config) ==
  /\ pc[t] = "start"
  /\ kind' = [kind EXCEPT ![t] = "logging_test_setup"]
  /\ cfg' = [cfg EXCEPT ![t] = config]
  /\ pc' = [pc EXCEPT ![t] = "lock"]
  /\ UNCHANGED <<errs, sbvars, lvl, guard, pending, ret, nlogs, fail, TEST_MUTEX, HANDLE,
                 INIT, logger, logs, stdout, targs, reached, sent, origin, calls, issuers,
                 overlapped, configured>>

\* logging_test_setup: `let guard = TEST_MUTEX.lock();`
TEST_MUTEX_lock(t) ==
  /\ pc[t] = "lock"
  /\ CanLock(TEST_MUTEX)
  /\ guard' = [guard EXCEPT ![t] = LockResult(TEST_MUTEX)]
  /\ TEST_MUTEX' = [TEST_MUTEX EXCEPT !.holder = t]
  /\ pc' = [pc EXCEPT ![t] = "handle"]
  /\ UNCHANGED <<errs, sbvars, lvl, kind, cfg, pending, ret, nlogs, fail, HANDLE, INIT,
                 logger, logs, stdout, targs, reached, sent, origin, calls, issuers,
                 overlapped, configured>>

\* The thread panics inside logging_test_setup: unwinding drops its LockResult,
\* which releases and poisons TEST_MUTEX.
SetupPanics(t, why) ==
  /\ TEST_MUTEX' = unlock(TEST_MUTEX, TRUE)
  /\ fail' = [fail EXCEPT ![t] = why]
  /\ pc' = [pc EXCEPT ![t] = "end"]

\* Mutant: a HANDLE whose initializer ignores the error of init_config.
HANDLE_deref_lenient(t) ==
  /\ pc[t] = "handle"
  /\ LET r == init_config(logger, OffConfig)
     IN CASE HANDLE = "ready" ->
               /\ pc' = [pc EXCEPT ![t] = "set_config"]
               /\ UNCHANGED <<HANDLE, logger, configured, TEST_MUTEX, fail>>
          [] HANDLE = "uninit" /\ r.ok ->
               /\ HANDLE' = "ready"
               /\ logger' = r.logger
               /\ configured' = Append(configured, "HANDLE")
               /\ pc' = [pc EXCEPT ![t] = "set_config"]
               /\ UNCHANGED <<TEST_MUTEX, fail>>
          [] OTHER ->
               /\ HANDLE' = "ready"
               /\ pc' = [pc EXCEPT ![t] = "set_config"]
               /\ UNCHANGED <<logger, configured, TEST_MUTEX, fail>>
  /\ UNCHANGED <<errs, sbvars, lvl, kind, cfg, guard, pending, ret, nlogs, INIT, logs,
                 stdout, targs, reached, sent, origin, calls, issuers, overlapped>>

\* logging_test_setup: the deref of HANDLE in `HANDLE.set_config(config)`.  The
\* first deref runs the initializer, whose init_config(..).unwrap() panics if a
\* logger is already set; a panicked initializer leaves HANDLE poisoned.
HANDLE_deref(t) ==
  /\ pc[t] = "handle"
  /\ LET r == init_config(logger, OffConfig)
     IN CASE HANDLE = "ready" ->
               /\ pc' = [pc EXCEPT ![t] = "set_config"]
               /\ UNCHANGED <<HANDLE, logger, configured, TEST_MUTEX, fail>>
          [] HANDLE = "uninit" /\ r.ok ->
               /\ HANDLE' = "ready"
               /\ logger' = r.logger
               /\ configured' = Append(configured, "HANDLE")
               /\ pc' = [pc EXCEPT ![t] = "set_config"]
               /\ UNCHANGED <<TEST_MUTEX, fail>>
          [] OTHER ->
               /\ HANDLE' = "poisoned"
               /\ SetupPanics(t, "HANDLE")
               /\ UNCHANGED <<logger, configured>>
  /\ UNCHANGED <<errs, sbvars, lvl, kind, cfg, guard, pending, ret, nlogs, INIT, logs,
                 stdout, targs, reached, sent, origin, calls, issuers, overlapped>>

\* logging_test_setup: `HANDLE.set_config(config)` and the match that returns the guard.
logging_test_setup_return(t) ==
  /\ pc[t] = "set_config"
  /\ logger' = set_config(logger, cfg[t])
  /\ IF GuardOf(guard[t])
     THEN /\ pc' = [pc EXCEPT ![t] = "test"]
          /\ UNCHANGED <<TEST_MUTEX, fail>>
     ELSE SetupPanics(t, "PoisonError")
  /\ UNCHANGED <<errs, sbvars, lvl, kind, cfg, guard, pending, ret, nlogs, HANDLE, INIT,
                 logs, stdout, targs, reached, sent, origin, calls, issuers, overlapped,
                 configured>>

\* Mutant: a guard whose drop puts HANDLE's initial configuration back.
DropGuard_reset(t) ==
  /\ pc[t] = "test"
  /\ TEST_MUTEX' = unlock(TEST_MUTEX, FALSE)
  /\ pc' = [pc EXCEPT ![t] = "end"]
  /\ logger' = set_config(logger, OffConfig)
  /\ UNCHANGED <<errs, sbvars, lvl, kind, cfg, guard, pending, ret, nlogs, fail, HANDLE,
                 INIT, logs, stdout, targs, reached, sent, origin, calls, issuers,
                 overlapped, configured>>

\* The test ends normally: its guard is dropped.
DropGuard(t) ==
  /\ pc[t] = "test"
  /\ TEST_MUTEX' = unlock(TEST_MUTEX, FALSE)
  /\ pc' = [pc EXCEPT ![t] = "end"]
  /\ UNCHANGED <<errs, sbvars, lvl, kind, cfg, guard, pending, ret, nlogs, fail, HANDLE,
                 INIT, logger, logs, stdout, targs, reached, sent, origin, calls, issuers,
                 overlapped, configured>>

\* The test fails (an assertion panics) while it holds its guard.
PanicInTest(t) ==
  /\ pc[t] = "test"
  /\ TEST_MUTEX' = unlock(TEST_MUTEX, TRUE)
  /\ fail' = [fail EXCEPT ![t] = "test"]
  /\ pc' = [pc EXCEPT ![t] = "end"]
  /\ UNCHANGED <<errs, sbvars, lvl, kind, cfg, guard, pending, ret, nlogs, HANDLE, INIT,
                 logger, logs, stdout, targs, reached, sent, origin, calls, issuers,
                 overlapped, configured>>

\* ------------------------------------------------ test-debug-logging subsystem
\* A test calls init_logging_once(config).
Call_init_logging_once(t, config) ==
  /\ pc[t] = "start"
  /\ kind' = [kind EXCEPT ![t] = "init_logging_once"]
  /\ cfg' = [cfg EXCEPT ![t] = config]
  /\ reached' = [reached EXCEPT ![t] = TRUE]
  /\ pc' = [pc EXCEPT ![t] = "once"]
  /\ UNCHANGED <<errs, sbvars, lvl, guard, pending, ret, nlogs, fail, TEST_MUTEX, HANDLE,
                 INIT, logger, logs, stdout, targs, sent, origin, calls, issuers,
                 overlapped, configured>>

\* Mutant: make_config called inside INIT's closure, where its panic poisons the gate.
Call_init_logging_once_for_gated(t, targets, level, pattern) ==
  /\ pc[t] = "start"
  /\ kind' = [kind EXCEPT ![t] = "init_logging_once_for"]
  /\ targs' = [targs EXCEPT ![t] = targets]
  /\ lvl' = [lvl EXCEPT ![t] = level]
  /\ IF is_completed(INIT)
     THEN /\ pc' = [pc EXCEPT ![t] = "body"]
          /\ UNCHANGED <<cfg, fail, reached, INIT>>
     ELSE IF HasDuplicate(targets)
     THEN /\ pc' = [pc EXCEPT ![t] = "end"]
          /\ fail' = [fail EXCEPT ![t] = "DuplicateTarget"]
          /\ INIT' = "poisoned"
          /\ UNCHANGED <<cfg, reached>>
     ELSE /\ cfg' = [cfg EXCEPT ![t] = make_config(targets, level, pattern)]
          /\ reached' = [reached EXCEPT ![t] = TRUE]
          /\ pc' = [pc EXCEPT ![t] = "once"]
          /\ UNCHANGED <<fail, INIT>>
  /\ UNCHANGED <<errs, sbvars, guard, pending, ret, nlogs, TEST_MUTEX, HANDLE, logger,
                 logs, stdout, sent, origin, calls, issuers, overlapped, configured>>

\* init_logging_once_for up to its call of init_logging_once: return at once if
\* INIT is completed, else build the config (make_config's final unwrap panics
\* on a repeated target) and call init_logging_once with it.
Call_init_logging_once_for(t, targets, level, pattern) ==
  /\ pc[t] = "start"
  /\ kind' = [kind EXCEPT ![t] = "init_logging_once_for"]
  /\ targs' = [targs EXCEPT ![t] = targets]
  /\ lvl' = [lvl EXCEPT ![t] = level]
  /\ IF is_completed(INIT)
     THEN /\ pc' = [pc EXCEPT ![t] = "body"]
          /\ UNCHANGED <<cfg, fail, reached>>
     ELSE IF HasDuplicate(targets)
     THEN /\ pc' = [pc EXCEPT ![t] = "end"]
          /\ fail' = [fail EXCEPT ![t] = "DuplicateTarget"]
          /\ UNCHANGED <<cfg, reached>>
     ELSE /\ cfg' = [cfg EXCEPT ![t] = make_config(targets, level, pattern)]
          /\ reached' = [reached EXCEPT ![t] = TRUE]
          /\ pc' = [pc EXCEPT ![t] = "once"]
          /\ UNCHANGED fail
  /\ UNCHANGED <<errs, sbvars, guard, pending, ret, nlogs, TEST_MUTEX, HANDLE, INIT,
                 logger, logs, stdout, sent, origin, calls, issuers, overlapped, configured>>

\* init_logging_once: `INIT.call_once(..)` as the caller meets the gate.  A
\* caller that finds the closure running blocks until it has finished; one that
\* finds the gate poisoned panics.
INIT_call_once(t) ==
  /\ pc[t] = "once"
  /\ call_once(INIT) # "wait"
  /\ CASE call_once(INIT) = "run" ->
            /\ INIT' = "running"
            /\ pc' = [pc EXCEPT ![t] = "closure"]
            /\ UNCHANGED fail
       [] call_once(INIT) = "skip" ->
            /\ pc' = [pc EXCEPT ![t] = "body"]
            /\ UNCHANGED <<INIT, fail>>
       [] OTHER ->
            /\ pc' = [pc EXCEPT ![t] = "end"]
            /\ fail' = [fail EXCEPT ![t] = "OncePoisoned"]
            /\ UNCHANGED INIT
  /\ UNCHANGED <<errs, sbvars, lvl, kind, cfg, guard, pending, ret, nlogs, TEST_MUTEX,
                 HANDLE, logger, logs, stdout, targs, reached, sent, origin, calls,
                 issuers, overlapped, configured>>

\* The closure: `log4rs::init_config(config)`, and the warn! if that failed.
INIT_closure(t) ==
  /\ pc[t] = "closure"
  /\ LET r == init_config(logger, cfg[t])
         what == on_init_result(r.ok)
     IN CASE what = "done" ->
               /\ logger' = r.logger
               /\ configured' = Append(configured, "INIT")
               /\ pc' = [pc EXCEPT ![t] = "closure_end"]
               /\ UNCHANGED <<pending, ret, calls, issuers, overlapped, fail, INIT>>
          [] what = "warn" ->
               /\ Dispatch(t, WarnRecord, "closure_end")
               /\ UNCHANGED <<logger, configured, fail, INIT>>
          [] OTHER ->
               \* a closure that panics poisons the gate
               /\ INIT' = "poisoned"
               /\ fail' = [fail EXCEPT ![t] = "SetLoggerError"]
               /\ pc' = [pc EXCEPT ![t] = "end"]
               /\ UNCHANGED <<logger, configured, pending, ret, calls, issuers, overlapped>>
  /\ UNCHANGED <<errs, sbvars, lvl, kind, cfg, guard, nlogs, TEST_MUTEX, HANDLE, logs,
                 stdout, targs, reached, sent, origin>>

\* The closure has returned: the gate is completed and init_logging_once returns.
INIT_complete(t) ==
  /\ pc[t] = "closure_end"
  /\ INIT' = "complete"
  /\ pc' = [pc EXCEPT ![t] = "body"]
  /\ UNCHANGED <<errs, sbvars, lvl, kind, cfg, guard, pending, ret, nlogs, fail,
                 TEST_MUTEX, HANDLE, logger, logs, stdout, targs, reached, sent, origin,
                 calls, issuers, overlapped, configured>>

\* ---------------------------------------------------------- specification
Next ==
  \/ \E t \in Threads, rec \in Records : Log(t, rec)
  \/ \E t \in Threads : MockAppender_append(t)
  \/ \E t \in Threads : TestConsoleAppender_append(t)
  \/ \E t \in Threads, a \in MockArgs : Call_logging_test_setup_mock(t, a[1], a[2])
  \/ \E t \in Threads, config \in Configs : Call_logging_test_setup(t, config)
  \/ \E t \in Threads : TEST_MUTEX_lock(t)
  \/ \E t \in Threads : HANDLE_deref(t)
  \/ \E t \in Threads : logging_test_setup_return(t)
  \/ \E t \in Threads : DropGuard(t)
  \/ \E t \in Threads : PanicInTest(t)
  \/ \E t \in Threads, config \in Configs : Call_init_logging_once(t, config)
  \/ \E t \in Threads, a \in ForArgs : Call_init_logging_once_for(t, a[1], a[2], NoArg)
  \/ \E t \in Threads : INIT_call_once(t)
  \/ \E t \in Threads : INIT_closure(t)
  \/ \E t \in Threads : INIT_complete(t)

Spec == Init /\ [][Next]_vars

\* The process whose tests may also hand their appender a failing encoder:
\* logging_test_setup_mock with an encoder of the test's own, and a config
\* around TestConsoleAppender::new(failing encoder).
FailingConsoleConfig ==
  [appender |-> "console", logs |-> 0, pattern |-> FailingEncoder, root |-> Trace,
   rootTo |-> TRUE, loggers |-> {}, level |-> Off]

NextEnc ==
  \/ Next
  \/ \E t \in Threads : Call_logging_test_setup_mock(t, NoArg, Some(FailingEncoder))
  \/ \E t \in Threads : Call_logging_test_setup(t, FailingConsoleConfig)
  \/ \E t \in Threads : Call_init_logging_once(t, FailingConsoleConfig)

SpecEnc == Init /\ [][NextEnc]_vars

\* The same process under fair scheduling.  Every thread is an OS thread that
\* keeps running: a call that has started goes on whenever it can (a lock() that
\* finds the mutex free takes it, a running closure finishes, an append that was
\* dispatched completes), and a test that holds its guard ends, normally or by
\* panicking.  Whether a test calls an entry point or logs is up to the test.
\* Weak fairness is enough for TEST_MUTEX.lock(): each test calls
\* logging_test_setup at most once, so a waiter is overtaken finitely often.
Fairness ==
  \A t \in Threads :
    /\ WF_vars(TEST_MUTEX_lock(t))
    /\ WF_vars(HANDLE_deref(t))
    /\ WF_vars(logging_test_setup_return(t))
    /\ WF_vars(DropGuard(t) \/ PanicInTest(t))
    /\ WF_vars(MockAppender_append(t))
    /\ WF_vars(TestConsoleAppender_append(t))
    /\ WF_vars(INIT_call_once(t))
    /\ WF_vars(INIT_closure(t))
    /\ WF_vars(INIT_complete(t))

FairSpec == Spec /\ Fairness

\* ------------------------------------------------- StringBuffer on its own
\* A StringBuffer with some content and a writer that hands it `input` in
\* slices of its choice, flushing when it likes.
InitSB ==
  /\ InitProcess
  /\ sb \in Strings /\ input \in Slices /\ sbpos = 0 /\ sbres = NoCall

\* write(&input[sbpos..to]); the writer advances only past a slice that was written.
StringBuffer_write(to) ==
  /\ to \in sbpos..Len(input)
  /\ LET r == write(sb, SubSeq(input, sbpos + 1, to))
     IN /\ sb' = r.string
        /\ sbres' = [op |-> "write", from |-> sbpos, to |-> to, ok |-> r.ok, n |-> r.n,
                      err |-> r.err]
        /\ sbpos' = sbpos + r.n
  /\ UNCHANGED <<errs, input, pc, kind, cfg, guard, pending, ret, nlogs, fail, TEST_MUTEX,
                 HANDLE, INIT, logger, logs, stdout, targs, lvl, reached, sent, origin,
                 calls, issuers, overlapped, configured>>

StringBuffer_flush ==
  /\ LET r == flush(sb)
     IN /\ sb' = r.string
        /\ sbres' = [op |-> "flush", from |-> sbpos, to |-> sbpos, ok |-> r.ok, n |-> r.n,
                      err |-> r.err]
  /\ UNCHANGED <<errs, input, sbpos, pc, kind, cfg, guard, pending, ret, nlogs, fail,
                 TEST_MUTEX, HANDLE, INIT, logger, logs, stdout, targs, lvl, reached, sent,
                 origin, calls, issuers, overlapped, configured>>

NextSB ==
  \/ \E to \in 0..MaxBytes : StringBuffer_write(to)
  \/ StringBuffer_flush

SpecSB == InitSB /\ [][NextSB]_vars

\* ==================================================================== claims
\* Thread t has been returned a guard by logging_test_setup and still holds it.
HoldsGuard(t) == pc[t] = "test" \/ (pc[t] = "append" /\ ret[t] = "test")

\* Thread t is inside logging_test_setup, past `TEST_MUTEX.lock()`.
InSetup(t) == pc[t] \in {"handle", "set_config"}

SetupKinds == {"logging_test_setup", "logging_test_setup_mock"}
InitKinds == {"init_logging_once", "init_logging_once_for"}

\* C1: at most one thread holds a guard returned by logging_test_setup, and no
\* other call of logging_test_setup gets past TEST_MUTEX.lock() while one does.
Thm_C1_MutualExclusion ==
  /\ Cardinality({t \in Threads : HoldsGuard(t) \/ InSetup(t)}) <= 1
  /\ \A t \in Threads : HoldsGuard(t) \/ InSetup(t) => TEST_MUTEX.holder = t

\* A test holds its guard while another test's logging_test_setup call waits.
Wit_C1 ==
  \E t, u \in Threads : t # u /\ HoldsGuard(t) /\ pc[u] = "lock"

\* C2: for two tests that both called logging_test_setup_mock, no line that
\* one of them logged while it held its guard is in the other's buffer.
Thm_C2_Isolation ==
  \A t1, t2 \in Threads :
    (t1 # t2 /\ kind[t1] = "logging_test_setup_mock" /\ kind[t2] = "logging_test_setup_mock")
      => \A i \in 1..Len(origin[t2]) : ~(origin[t2][i].by = t1 /\ origin[t2][i].held)

\* Two mock tests ran one after the other and each captured a line of its own.
Wit_C2 ==
  \E t1, t2 \in Threads :
    /\ t1 # t2
    /\ kind[t1] = "logging_test_setup_mock" /\ kind[t2] = "logging_test_setup_mock"
    /\ \E i \in 1..Len(origin[t1]) : origin[t1][i].by = t1 /\ origin[t1][i].held
    /\ \E i \in 1..Len(origin[t2]) : origin[t2][i].by = t2 /\ origin[t2][i].held

\* C3: while a test holds the guard of logging_test_setup(c) the active
\* configuration is exactly c; a set logger's configuration is changed only by
\* the set_config of the thread that holds TEST_MUTEX, which replaces it whole;
\* and every record dispatched while the guard is held goes to c's appender.
Step_C3 ==
  /\ \A t \in Threads : HoldsGuard(t)' => logger'.set /\ logger'.config = cfg'[t]
  /\ (logger.set /\ logger' # logger) =>
        \E t \in Threads : /\ pc[t] = "set_config"
                            /\ TEST_MUTEX.holder = t
                            /\ logger'.config = cfg[t]
  /\ \A u \in Threads :
       (pending'[u] # <<>> /\ pending[u] = <<>>) =>
          \A t \in Threads : HoldsGuard(t) => pending'[u][1].config = cfg[t]

\* C3: every step keeps the holder's config active, changes a set logger's
\* configuration only through the mutex holder's set_config, and dispatches
\* records to the holder's appender (Step_C3).
Thm_C3_FullReplace == [][Step_C3]_vars

\* A second test holds its guard after an earlier test's different config was replaced.
Wit_C3 ==
  \E t, u \in Threads :
    /\ t # u /\ HoldsGuard(t) /\ pc[u] = "end" /\ kind[u] \in SetupKinds
    /\ guard[u] # "" /\ fail[u] \in {"", "test"}
    /\ cfg[u] # cfg[t] /\ logger.config = cfg[t]

\* Thread t's call of init_logging_once / init_logging_once_for has returned.
Returned(t) == pc[t] = "body" \/ (pc[t] = "append" /\ ret[t] = "body")

\* Thread t's call has returned or panicked.
Over(t) == Returned(t) \/ pc[t] = "end"

\* Thread t is running INIT's closure.
InClosure(t) ==
  pc[t] \in {"closure", "closure_end"} \/ (pc[t] = "append" /\ ret[t] = "closure_end")

InitCallers == {t \in Threads : kind[t] \in InitKinds}

\* The configs handed to init_logging_once so far.
Supplied == {cfg[t] : t \in {u \in InitCallers : reached[u]}}

Thm_C5_InitComplete ==
  \A t \in InitCallers :
    Returned(t) =>
      /\ INIT = "complete"
      /\ \A u \in Threads : ~InClosure(u)
      /\ logger.set /\ Len(configured) = 1

\* Two callers met the gate and both returned (at most one of them ran the closure).
Wit_C5 ==
  \E t, u \in InitCallers :
    t # u /\ reached[t] /\ reached[u] /\ Returned(t) /\ Returned(u)

\* C6 as stated: every init_logging_once_for call with a repeated target
\* fails with the duplicate-target error and never reaches init_logging_once.
Orig_C6 ==
  \A t \in Threads :
    (kind[t] = "init_logging_once_for" /\ HasDuplicate(targs[t])) =>
       fail[t] = "DuplicateTarget" /\ ~reached[t]

\* C6 (amended): an init_logging_once_for call with a repeated target never
\* reaches init_logging_once; it fails with the duplicate-target error unless
\* INIT was already completed, in which case it returns without failing.
Thm_C6_DuplicateTarget ==
  \A t \in Threads :
    (kind[t] = "init_logging_once_for"
       /\ \E i, j \in 1..Len(targs[t]) : i # j /\ targs[t][i] = targs[t][j]) =>
       /\ ~reached[t]
       /\ ~InClosure(t) /\ pc[t] # "once"
       /\ \/ fail[t] = "DuplicateTarget" /\ pc[t] = "end"
          \/ fail[t] = "" /\ INIT = "complete" /\ Returned(t)

\* A call with targets ["foo", "foo"] found INIT not completed and panicked.
Wit_C6 ==
  \E t \in Threads :
    /\ kind[t] = "init_logging_once_for" /\ targs[t] = << <<"foo">>, <<"foo">> >>
    /\ fail[t] = "DuplicateTarget" /\ INIT # "complete"

\* C7: after a test panicked while holding its guard, TEST_MUTEX is released;
\* a later logging_test_setup call that finds it poisoned does not fail, its
\* config becomes the active one and it holds the mutex exclusively.
Thm_C7_PoisonIgnored ==
  /\ \A u \in Threads : fail[u] = "test" => TEST_MUTEX.holder # u
  /\ \A t \in Threads :
       (guard[t] = "Err" /\ \E u \in Threads : fail[u] = "test") =>
          /\ fail[t] \in {"", "test"}
          /\ pc[t] \in {"handle", "set_config", "test", "append", "end"}
          /\ HoldsGuard(t) =>
               /\ logger.set /\ logger.config = cfg[t]
               /\ TEST_MUTEX.holder = t
               /\ \A v \in Threads \ {t} : ~HoldsGuard(v) /\ ~InSetup(v)

\* A test holds the guard it got from the mutex an earlier, panicked test poisoned.
Wit_C7 ==
  \E t, u \in Threads :
    t # u /\ fail[u] = "test" /\ guard[t] = "Err" /\ HoldsGuard(t) /\ TEST_MUTEX.poisoned

\* C8: when INIT's closure finds the backend already configured it leaves the
\* logger unchanged, at most logs the warning, and the call returns with the
\* gate completed; once the gate is completed no init_logging_once or
\* init_logging_once_for call changes the logger or the gate; no
\* init_logging_once call fails, and init_logging_once_for fails only on
\* repeated targets.
Step_C8 ==
  /\ \A t \in Threads :
       (pc[t] = "closure" /\ logger.set /\ pc'[t] # "closure") =>
          /\ logger' = logger /\ configured' = configured
          /\ fail'[t] = "" /\ INIT' = INIT
          /\ \/ pc'[t] = "closure_end"
             \/ /\ pc'[t] = "append" /\ ret'[t] = "closure_end"
                /\ pending'[t][1].rec = WarnRecord
  /\ \A t \in Threads :
       (pc[t] = "closure_end" /\ pc'[t] # "closure_end") =>
          INIT' = "complete" /\ pc'[t] = "body" /\ logger' = logger
  /\ INIT = "complete" =>
       /\ INIT' = "complete" /\ configured' = configured
       /\ \A t \in Threads :
            (kind'[t] \in InitKinds /\ pc'[t] # pc[t]) =>
               logger' = logger /\ fail'[t] = "" /\ ~InClosure(t)'
  /\ \A t \in Threads : kind'[t] = "init_logging_once" => fail'[t] = ""
  /\ \A t \in Threads :
       kind'[t] = "init_logging_once_for" => fail'[t] \in {"", "DuplicateTarget"}

Front(seq) == SubSeq(seq, 1, Len(seq) - 1)

\* An append call on buffer b's MockAppender is in progress.
InFlight(b) ==
  \E u \in Threads : /\ pending[u] # <<>>
                      /\ pending[u][1].config.appender = "mock"
                      /\ pending[u][1].config.logs = b

\* C9: as long as the append calls on a MockAppender never overlapped, its
\* buffer holds exactly the formatted lines of the completed calls, in call
\* order (so each call added exactly one line, at the end).
Thm_C9_SequentialOrder ==
  \A b \in Threads :
    ~overlapped[b] =>
      LET done == IF InFlight(b) THEN Front(calls[b]) ELSE calls[b]
      IN /\ Len(logs[b]) = Len(done)
         /\ \A i \in 1..Len(done) : logs[b][i] = encode(cfg[b].pattern, done[i])

\* Two append calls, one after the other, left two different lines in the buffer.
Wit_C9 ==
  \E b \in Threads :
    ~overlapped[b] /\ ~InFlight(b) /\ Len(logs[b]) = 2 /\ logs[b][1] # logs[b][2]

\* The elements of seq at the positions where keep holds.
RECURSIVE Pick(_, _)
Pick(seq, keep) ==
  IF seq = <<>> THEN <<>>
  ELSE (IF Head(keep) THEN <<Head(seq)>> ELSE <<>>) \o Pick(Tail(seq), Tail(keep))

\* The level rule of the claim: Trace lets every record through, Warn lets
\* Error and Warn through and stops Info.
Passes(filter, level) ==
  CASE filter = Trace -> TRUE
    [] filter = Warn -> level \in {Error, Warn}
    [] OTHER -> FALSE

\* C10: while a mock test holds its guard, the lines of its buffer that it
\* logged itself are exactly the formatted lines of the records it logged
\* since setup whose level passes `level`, in logging order; and no line in the
\* buffer comes from a record whose level does not pass.
Thm_C10_LevelFilter ==
  \A t \in Threads :
    (kind[t] = "logging_test_setup_mock" /\ pc[t] = "test") =>
      LET own == Pick(logs[t], [i \in 1..Len(origin[t]) |-> origin[t][i].by = t])
          passed == SelectSeq(sent[t], LAMBDA r : Passes(cfg[t].root, r.level))
      IN /\ cfg[t].root \in {Trace, Warn}
         /\ Len(own) = Len(passed)
         /\ \A i \in 1..Len(passed) : own[i] = encode(cfg[t].pattern, passed[i])
         /\ \A i \in 1..Len(calls[t]) : Passes(cfg[t].root, calls[t][i].level)

\* A test set up with level Warn logged an Info and a Warn record: only the
\* Warn line is in its buffer.
Wit_C10 ==
  \E t \in Threads :
    /\ kind[t] = "logging_test_setup_mock" /\ pc[t] = "test" /\ cfg[t].root = Warn
    /\ Len(sent[t]) = 2 /\ sent[t][1].level = Info /\ sent[t][2].level = Warn
    /\ logs[t] = << <<"this will appear">> >>

\* `target` is `name` or one of its "::"-descendants.
Under(name, target) ==
  Len(name) <= Len(target) /\ \A i \in 1..Len(name) : target[i] = name[i]

\* Whether the claim expects output for a record under init_logging_once_for's
\* (targets, level): at a passing level and, if targets are listed, under one of them.
Expected(targets, level, rec) ==
  /\ Passes(IF level = <<>> THEN Trace ELSE level[1], rec.level)
  /\ targets = <<>> \/ \E i \in 1..Len(targets) : Under(targets[i], rec.target)

\* C11: the config init_logging_once_for builds has, for empty targets, the root
\* logger at `level` attached to the console appender and no named logger; for
\* non-empty targets the root logger Off and exactly one logger per target at
\* `level`; while that config is active a logged record is handed to the console
\* appender iff it is at a passing level and (for non-empty targets) under a
\* listed target, and a record handed over becomes exactly one line of output.
Step_C11 ==
  /\ \A u \in Threads :
       (kind'[u] = "init_logging_once_for" /\ reached'[u]) =>
          LET c == cfg'[u]
              ts == targs'[u]
              l == IF lvl'[u] = <<>> THEN Trace ELSE lvl'[u][1]
          IN /\ c.appender = "console"
             /\ IF ts = <<>>
                THEN c.root = l /\ c.rootTo /\ c.loggers = {}
                ELSE /\ c.root = Off
                     /\ c.level = l
                     /\ Cardinality(c.loggers) = Len(ts)
                     /\ \A n \in c.loggers : \E i \in 1..Len(ts) : ts[i] = n
  /\ \A u, t \in Threads :
       (/\ kind[u] = "init_logging_once_for" /\ reached[u]
        /\ logger.set /\ logger.config = cfg[u]
        /\ sent'[t] # sent[t]) =>
          LET rec == sent'[t][Len(sent'[t])]
          IN IF Expected(targs[u], lvl[u], rec)
             THEN /\ pc'[t] = "append"
                  /\ pending'[t] # <<>>
                  /\ pending'[t][1].rec = rec
                  /\ pending'[t][1].config = cfg[u]
             ELSE pending'[t] = <<>> /\ pc'[t] = pc[t] /\ stdout' = stdout
  /\ \A u, t \in Threads :
       (/\ kind[u] = "init_logging_once_for" /\ reached[u]
        /\ pending[t] # <<>> /\ pending[t][1].config = cfg[u]
        /\ pending'[t] = <<>>) =>
          /\ Len(stdout') = Len(stdout) + 1
          /\ SubSeq(stdout', 1, Len(stdout)) = stdout
          /\ \E i \in 1..Len(stdout'[Len(stdout')]) :
                stdout'[Len(stdout')][i] = pending[t][1].rec.msg

\* C11: every step builds init_logging_once_for's config by the targets policy
\* and routes logged records accordingly (Step_C11).
Thm_C11_TargetPolicy == [][Step_C11]_vars

\* With targets ["foo", "bar"] active, a test logged under "baz" and then under
\* "foo::sub": only the second record was printed.
Wit_C11 ==
  \E u, t \in Threads :
    /\ kind[u] = "init_logging_once_for" /\ reached[u]
    /\ targs[u] = << <<"foo">>, <<"bar">> >>
    /\ logger.set /\ logger.config = cfg[u]
    /\ Len(sent[t]) = 2
    /\ sent[t][1].target = <<"baz">> /\ sent[t][2].target = <<"foo", "sub">>
    /\ Len(stdout) = 1
    /\ \E i \in 1..Len(stdout[1]) : stdout[1][i] = "this will appear"

\* C12: a call of init_logging_once_for that finds INIT completed returns in
\* that step without failing, builds no config, does not enter
\* init_logging_once, and leaves the global logger, the gate and every other
\* process-wide object unchanged.
Step_C12 ==
  \A t \in Threads :
    (kind[t] = "" /\ kind'[t] = "init_logging_once_for" /\ INIT = "complete") =>
       /\ pc'[t] = "body" /\ fail'[t] = ""
       /\ cfg'[t] = cfg[t]
       /\ ~reached'[t]
       /\ logger' = logger /\ INIT' = INIT /\ configured' = configured
       /\ HANDLE' = HANDLE /\ TEST_MUTEX' = TEST_MUTEX
       /\ logs' = logs /\ stdout' = stdout

\* C12: every init_logging_once_for call on a completed gate is a no-op (Step_C12).
Thm_C12_ShortCircuit == [][Step_C12]_vars

\* A call with targets ["foo", "bar"] returned on a completed gate without
\* ever building its config.
Wit_C12 ==
  \E t \in Threads :
    /\ kind[t] = "init_logging_once_for" /\ targs[t] = << <<"foo">>, <<"bar">> >>
    /\ pc[t] = "body" /\ ~reached[t] /\ cfg[t] = OffConfig
    /\ INIT = "complete" /\ logger.set

\* A byte sequence is valid UTF-8 iff it splits into sequences that each are
\* the encoding of the Unicode scalar value they spell.
RECURSIVE ValidUTF8(_)
ValidUTF8(bytes) ==
  \/ bytes = <<>>
  \/ \E k \in 1..4 :
       /\ k <= Len(bytes)
       /\ LET u == SubSeq(bytes, 1, k)
              c == Value(u)
          IN /\ c \in 0..55295 \/ c \in 57344..1114111
             /\ encode_utf8(c) = u
       /\ ValidUTF8(SubSeq(bytes, k + 1, Len(bytes)))

\* C13: a write of a valid UTF-8 slice returns Ok(its length) and the buffer's
\* bytes become the old bytes followed by the slice; a write of any other slice
\* returns the InvalidData error and leaves the buffer as it was; a flush
\* returns Ok and changes nothing.
Step_C13 ==
  /\ (sbres' # sbres /\ sbres'.op = "write") =>
        LET slice == SubSeq(input, sbres'.from + 1, sbres'.to)
        IN /\ sbres'.from = sbpos
           /\ IF ValidUTF8(slice)
              THEN /\ sbres'.ok /\ sbres'.n = Len(slice)
                   /\ as_bytes(sb') = as_bytes(sb) \o slice
              ELSE /\ ~sbres'.ok /\ sbres'.err = "InvalidData"
                   /\ sb' = sb
  /\ (sbres' # sbres /\ sbres'.op = "flush") =>
        sbres'.ok /\ sb' = sb /\ sbpos' = sbpos

\* C13: every write is all-or-nothing and every flush is a successful no-op (Step_C13).
Thm_C13_WriteAllOrNothing == [][Step_C13]_vars

\* After 'A' was written to a non-empty buffer, the write of the first two
\* bytes of a three-byte code point failed and left the buffer ending in 'A'.
Wit_C13 ==
  /\ input = <<65, 226, 128>>
  /\ sbpos = 1
  /\ sbres = [op |-> "write", from |-> 1, to |-> 3, ok |-> FALSE, n |-> 0, err |-> "InvalidData"]
  /\ Len(sb) = 2 /\ sb[1] = 8233 /\ sb[2] = 65

\* The threads with an append call on buffer b's MockAppender in progress.
Appending(b) ==
  {u \in Threads : /\ pending[u] # <<>>
                    /\ pending[u][1].config.appender = "mock"
                    /\ pending[u][1].config.logs = b}

\* The records thread t handed to buffer b's MockAppender, in issue order.
IssuedBy(t, b) == Pick(calls[b], [i \in 1..Len(issuers[b]) |-> issuers[b][i] = t])

\* The records of the lines thread t's append calls put into buffer b, in buffer order.
LinesBy(t, b) ==
  LET own == SelectSeq(origin[b], LAMBDA o : o.by = t)
  IN [i \in 1..Len(own) |-> own[i].rec]

\* C14, at a state: buffer b holds one line per completed append call, each the
\* formatted line of its call's record, and the lines of each thread are its
\* completed calls in issue order.
Lines_C14 ==
  \A b \in Threads :
    /\ Len(logs[b]) = Len(origin[b])
    /\ Len(logs[b]) + Cardinality(Appending(b)) = Len(calls[b])
    /\ \A i \in 1..Len(logs[b]) :
         logs[b][i] = <<LevelName(origin[b][i].rec.level), " ">>
                        \o Path(origin[b][i].rec.target) \o <<" ", origin[b][i].rec.msg>>
         \/ logs[b][i] = <<origin[b][i].rec.msg>>
    /\ \A t \in Threads :
         LinesBy(t, b) \o (IF t \in Appending(b) THEN <<pending[t][1].rec>> ELSE <<>>)
           = IssuedBy(t, b)

\* C14, at a step: an append call that completes (takes the buffer lock) puts
\* its line behind the lines of all calls that took the lock before it.
Step_C14 ==
  /\ Lines_C14'
  /\ \A b, t \in Threads :
       (t \in Appending(b) /\ pending'[t] = <<>>) =>
          /\ Len(logs'[b]) = Len(logs[b]) + 1
          /\ SubSeq(logs'[b], 1, Len(logs[b])) = logs[b]
          /\ origin'[b][Len(logs'[b])].by = t
          /\ origin'[b][Len(logs'[b])].rec = pending[t][1].rec

\* C14: under concurrent appends no line is lost or duplicated, lines are in
\* lock-acquisition order and each thread's lines in its issue order
\* (Lines_C14 after every step, Step_C14).
Thm_C14_ConcurrentAppend == [][Step_C14]_vars

\* Two threads had append calls on one buffer in progress at once, and the
\* call issued second took the lock first: both lines are there, in lock order.
Wit_C14 ==
  \E b \in Threads :
    /\ overlapped[b] /\ Appending(b) = {}
    /\ Len(logs[b]) = 2 /\ Len(calls[b]) = 2
    /\ issuers[b][1] # issuers[b][2]
    /\ origin[b][1].by = issuers[b][2] /\ origin[b][1].rec = calls[b][2]
    /\ origin[b][2].by = issuers[b][1] /\ origin[b][2].rec = calls[b][1]
    /\ calls[b][1] # calls[b][2]

\* Thread t is in a call of logging_test_setup that has not returned yet.
InCall(t) == pc[t] \in {"lock", "handle", "set_config"}

\* C15 as stated: no call of logging_test_setup ends without returning a guard.
Orig_C15 ==
  \A t \in Threads : kind[t] \in SetupKinds => fail[t] \notin {"HANDLE", "PoisonError"}

\* A step in which a call of logging_test_setup waits behind a held guard.
Blocked_C15 ==
  \A t, u \in Threads :
    (HoldsGuard(u) /\ pc[t] = "lock") => pc'[t] = "lock" \/ ~HoldsGuard(u)'

\* C15 (amended): under fair scheduling, with every holder of a guard dropping
\* it in the end, every call of logging_test_setup leads to the caller holding
\* the returned guard or to the call panicking in HANDLE's initialization; and
\* while a test holds its guard a call waiting at TEST_MUTEX.lock() stays there.
Thm_C15_SetupLiveness ==
  /\ \A t \in Threads : InCall(t) ~> (HoldsGuard(t) \/ fail[t] = "HANDLE")
  /\ [][Blocked_C15]_vars

\* A test holds the guard it was returned after an earlier test held one and
\* dropped it normally.
Wit_C15 ==
  \E t, u \in Threads :
    /\ t # u /\ pc[t] = "test" /\ guard[t] = "Ok" /\ TEST_MUTEX.holder = t
    /\ kind[u] \in SetupKinds /\ guard[u] = "Ok" /\ pc[u] = "end" /\ fail[u] = ""

\* Thread t's log call is inside the append of an appender of the given kind
\* whose encoder fails.
Failing(t, appender) ==
  /\ pending[t] # <<>>
  /\ pending[t][1].config.appender = appender
  /\ pending[t][1].config.pattern = FailingEncoder

\* C16: when the encoder fails, MockAppender::append panics (the thread's log
\* call does not return) with every log buffer unchanged, and
\* TestConsoleAppender::append returns the error to its caller, which goes on,
\* with nothing printed; so no buffer and no output ever holds a line a failing
\* encoder began.
Step_C16 ==
  /\ \A t \in Threads :
       (Failing(t, "mock") /\ pending'[t] = <<>>) =>
          /\ logs' = logs /\ stdout' = stdout /\ errs' = errs
          /\ pc'[t] = "end" /\ fail'[t] = "EncodeError"
  /\ \A t \in Threads :
       (Failing(t, "console") /\ pending'[t] = <<>>) =>
          /\ stdout' = stdout /\ logs' = logs
          /\ errs' = Append(errs, [by |-> t, err |-> "EncodeError"])
          /\ pc'[t] = ret[t] /\ fail'[t] = fail[t]
  /\ \A b \in Threads :
       (kind'[b] = "logging_test_setup_mock" /\ cfg'[b].pattern = FailingEncoder) =>
          logs'[b] = <<>>
  /\ \A i \in 1..Len(stdout') : stdout'[i][Len(stdout'[i])] = "\n"

\* C16: in every step a failing encoder leaves no line, whole or partial, in a
\* buffer or on standard output (Step_C16).
Thm_C16_EncodeFailure == [][Step_C16]_vars

\* One test's record reached a MockAppender with a failing encoder and the test
\* panicked with its buffer empty; another's reached a TestConsoleAppender with
\* a failing encoder, which returned the error and printed nothing.
Wit_C16 ==
  \E t, u \in Threads :
    /\ t # u
    /\ kind[t] = "logging_test_setup_mock" /\ cfg[t].pattern = FailingEncoder
    /\ fail[t] = "EncodeError" /\ pc[t] = "end"
    /\ Len(calls[t]) = 1 /\ issuers[t] = <<t>> /\ logs[t] = <<>>
    /\ errs = <<[by |-> u, err |-> "EncodeError"]>>
    /\ stdout = <<>>

\* C17: the step in which init_logging_once_for fails on repeated targets
\* changes neither the gate (still not completed, not poisoned) nor the logger
\* nor any other process-wide object, and the call has not entered
\* init_logging_once; and after such a failure a call that meets the gate
\* incomplete still runs the closure, which configures a backend that nobody
\* configured yet with that call's own config.
Step_C17 ==
  /\ \A t \in Threads :
       (fail[t] = "" /\ fail'[t] = "DuplicateTarget") =>
          /\ INIT' = INIT /\ INIT' \notin {"complete", "poisoned"}
          /\ logger' = logger /\ configured' = configured
          /\ HANDLE' = HANDLE /\ TEST_MUTEX' = TEST_MUTEX
          /\ logs' = logs /\ stdout' = stdout
          /\ ~reached'[t] /\ pc'[t] = "end"
  /\ \A t, u \in Threads :
       (fail[t] = "DuplicateTarget" /\ pc[u] = "once" /\ pc'[u] # "once"
          /\ INIT = "incomplete") =>
          pc'[u] = "closure" /\ INIT' = "running" /\ fail'[u] = ""
  /\ \A t, u \in Threads :
       (fail[t] = "DuplicateTarget" /\ pc[u] = "closure" /\ pc'[u] # "closure"
          /\ ~logger.set) =>
          /\ logger' = [set |-> TRUE, config |-> cfg[u]]
          /\ configured' = Append(configured, "INIT")
          /\ pc'[u] = "closure_end" /\ fail'[u] = ""

\* C17: a duplicate-target failure leaves no trace in any step (Step_C17).
Thm_C17_FailedInitNoTrace == [][Step_C17]_vars

\* One call failed on ["foo", "foo"]; another call, with a valid config, ran
\* the one-time configuration with its own config and returned.
Wit_C17 ==
  \E t, u \in Threads :
    /\ t # u /\ fail[t] = "DuplicateTarget" /\ ~reached[t]
    /\ kind[u] \in InitKinds /\ reached[u] /\ pc[u] = "body"
    /\ INIT = "complete" /\ configured = <<"INIT">>
    /\ logger = [set |-> TRUE, config |-> cfg[u]]

\* Mock test t was returned a guard and has dropped it, and its config is
\* still the active one (no later logging_test_setup has applied its own).
StillActive(t) ==
  /\ kind[t] = "logging_test_setup_mock" /\ pc[t] = "end" /\ guard[t] # ""
  /\ fail[t] \in {"", "test"}
  /\ logger.set /\ logger.config = cfg[t]

\* C18: the step in which a test drops its guard (normally or by panicking)
\* leaves the global configuration unchanged; while the dropped test's config is
\* still active every record the logger hands on, whoever logged it and whether
\* or not that thread called setup yet, goes to that test's appender, and the
\* appender puts its line at the end of that test's buffer and nowhere else.
Step_C18 ==
  /\ \A t \in Threads : (HoldsGuard(t) /\ ~HoldsGuard(t)') => logger' = logger
  /\ \A t, u \in Threads :
       (StillActive(t) /\ pending[u] = <<>> /\ pending'[u] # <<>>) =>
          /\ pending'[u][1].config = cfg[t]
          /\ pending'[u][1].after
          /\ Len(calls'[t]) = Len(calls[t]) + 1
  /\ \A t, u \in Threads :
       (/\ kind[t] = "logging_test_setup_mock"
        /\ pending[u] # <<>> /\ pending[u][1].config = cfg[t] /\ pending[u][1].after
        /\ pending'[u] = <<>>) =>
          /\ Len(logs'[t]) = Len(logs[t]) + 1
          /\ SubSeq(logs'[t], 1, Len(logs[t])) = logs[t]
          /\ \E i \in 1..Len(logs'[t][Len(logs'[t])]) :
                logs'[t][Len(logs'[t])][i] = pending[u][1].rec.msg
          /\ \A b \in Threads \ {t} : logs'[b] = logs[b]
          /\ stdout' = stdout

\* C18: dropping the guard resets nothing; records logged afterwards land in
\* the dropped test's buffer until the next set_config (Step_C18).
Thm_C18_NoResetOnDrop == [][Step_C18]_vars

\* A test logged before it called setup, after the previous mock test had ended:
\* the line is in the previous test's buffer, and the test that logged it now
\* holds its own guard with its own buffer empty.
Wit_C18 ==
  \E t, u \in Threads :
    /\ t # u /\ kind[t] = "logging_test_setup_mock" /\ pc[t] = "end" /\ fail[t] = ""
    /\ kind[u] = "logging_test_setup_mock" /\ pc[u] = "test"
    /\ logs[u] = <<>> /\ sent[u] = <<>>
    /\ \E i \in 1..Len(origin[t]) :
         origin[t][i].by = u /\ origin[t][i].after /\ ~origin[t][i].held

\* C19, at a state: the backend's initial configure has succeeded at most
\* once; and if init_logging_once's closure was the one, no logging_test_setup
\* call is past HANDLE, holds a guard or has applied its config, HANDLE is not
\* initialized, the active config is the one INIT's closure supplied, and every
\* logging_test_setup call that is over has panicked in HANDLE's initialization
\* and no longer holds TEST_MUTEX.
First_C19 ==
  /\ Len(configured) <= 1
  /\ configured = <<"INIT">> =>
       /\ HANDLE # "ready"
       /\ logger.set /\ logger.config \in Supplied
       /\ \A t \in Threads :
            kind[t] \in SetupKinds =>
               /\ pc[t] \in {"lock", "handle", "end"}
               /\ ~HoldsGuard(t)
               /\ pc[t] = "end" => fail[t] = "HANDLE" /\ TEST_MUTEX.holder # t

\* C19, at a step: once logging_test_setup's HANDLE configured the backend, no
\* step of an init_logging_once / init_logging_once_for call changes the active
\* configuration; once INIT's closure did, a logging_test_setup call that
\* reaches HANDLE panics there, holding TEST_MUTEX and releasing it, and the
\* logger stays as it was.
Step_C19 ==
  /\ First_C19'
  /\ configured = <<"HANDLE">> =>
       /\ configured' = configured
       /\ \A t \in Threads :
            (kind'[t] \in InitKinds /\ (pc'[t] # pc[t] \/ kind'[t] # kind[t])) =>
               logger' = logger
  /\ configured = <<"INIT">> =>
       /\ configured' = configured
       /\ logger' = logger
       /\ \A t \in Threads :
            (pc[t] = "handle" /\ pc'[t] # "handle") =>
               /\ TEST_MUTEX.holder = t /\ TEST_MUTEX'.holder = 0
               /\ pc'[t] = "end" /\ fail'[t] = "HANDLE"
               /\ HANDLE' = "poisoned"

====
